---- MODULE Spec2Model ----
(***************************************************************************)
(* Model of src/config.py: the whitelist-gated configuration cache over    *)
(* os.environ (get_ai_config, update_ai_config_cache,                      *)
(* clear_ai_config_cache), the AI client slot (init_ai_client) and the     *)
(* module-level start-up code.                                             *)
(*                                                                         *)
(* A Python dict is a TLA+ function whose DOMAIN is the set of its keys.   *)
(* Python strings are TLA+ strings; Python's None is the string None.      *)
(***************************************************************************)
EXTENDS Integers, FiniteSets, Sequences, TLC

VARIABLES
    ai_config_cache,   \* _ai_config_cache : dict
    environ,           \* os.environ : dict of strings
    client,            \* the module-level client slot: None or a handle
    flags,             \* ENABLE_THINKING / ENABLE_RESPONSE_FORMAT module constants
    pc,                \* "boot" before the module-level code ran, "run" after
    frames,            \* the calls in progress: their position and locals
    last               \* history: the call that produced this state

vars == <<ai_config_cache, environ, client, flags, pc, frames, last>>

\* ------------------------------------------------------------------------
\* Values
\* ------------------------------------------------------------------------

\* Python's None (never a member of the string values below).
None == "<None>"

\* The empty dict.
EmptyDict == [x \in {} |-> None]

\* Python truthiness of a configuration value (None and "" are falsy).
Truthy(v) == v # None /\ v # ""

\* _CONFIG_CACHE_KEYS
CONFIG_CACHE_KEYS ==
    { "OPENAI_API_KEY", "OPENAI_BASE_URL", "OPENAI_MODEL_NAME", "PROXY_URL",
      "NTFY_TOPIC_URL", "GOTIFY_URL", "GOTIFY_TOKEN", "BARK_URL",
      "WX_BOT_URL", "TELEGRAM_BOT_TOKEN", "TELEGRAM_CHAT_ID",
      "WEBHOOK_URL", "WEBHOOK_METHOD", "WEBHOOK_HEADERS", "WEBHOOK_CONTENT_TYPE",
      "WEBHOOK_QUERY_PARAMETERS", "WEBHOOK_BODY",
      "PCURL_TO_MOBILE", "RUN_HEADLESS", "LOGIN_IS_EDGE", "RUNNING_IN_DOCKER",
      "AI_DEBUG_MODE", "SKIP_AI_ANALYSIS", "ENABLE_THINKING", "ENABLE_RESPONSE_FORMAT",
      "WEBHOOK_ENABLE_MARKDOWN" }

\* The two proxy entries of os.environ written by init_ai_client.
ProxyKeys == {"HTTP_PROXY", "HTTPS_PROXY"}

\* ------------------------------------------------------------------------
\* dict helpers
\* ------------------------------------------------------------------------

\* d[k] = v
DictSet(d, k, v) == [x \in DOMAIN d \cup {k} |-> IF x = k THEN v ELSE d[x]]

\* d.pop(k, None)
DictPop(d, k) == [x \in DOMAIN d \ {k} |-> d[x]]

\* os.getenv(key, default)
getenv(e, key, default) == IF key \in DOMAIN e THEN e[key] ELSE default

\* ------------------------------------------------------------------------
\* get_ai_config(key, default): the returned value and the cache afterwards
\* ------------------------------------------------------------------------
\* Faulty variant: a value read from os.environ is cached whether truthy or not.
get_ai_config_caches_falsy(c, e, key, default) ==
    IF key \notin CONFIG_CACHE_KEYS
    THEN [ret |-> getenv(e, key, default), cache |-> c]
    ELSE IF key \in DOMAIN c
    THEN [ret |-> c[key], cache |-> c]
    ELSE LET value == getenv(e, key, default)
         IN  [ret |-> value, cache |-> DictSet(c, key, value)]

get_ai_config(c, e, key, default) ==
    IF key \notin CONFIG_CACHE_KEYS
    THEN [ret |-> getenv(e, key, default), cache |-> c]
    ELSE IF key \in DOMAIN c
    THEN [ret |-> c[key], cache |-> c]
    ELSE LET value == getenv(e, key, default)
         IN  [ret   |-> value,
              cache |-> IF Truthy(value) THEN DictSet(c, key, value) ELSE c]

\* ------------------------------------------------------------------------
\* update_ai_config_cache(settings): the cache and os.environ afterwards
\* ------------------------------------------------------------------------
\* Faulty variant: the settings are not filtered to the whitelist.
filtered_settings_unfiltered(settings) == settings

filtered_settings(settings) ==
    [k \in DOMAIN settings \cap CONFIG_CACHE_KEYS |-> settings[k]]

\* Faulty variant: only keys that are not cached yet are written (setdefault).
update_cache_new_only(c, settings) ==
    LET f == filtered_settings(settings)
    IN  [k \in DOMAIN c \cup DOMAIN f |-> IF k \in DOMAIN c THEN c[k] ELSE f[k]]

\* Faulty variant: a falsy value deletes the cache entry instead of being
\* stored.
update_cache_falsy_deletes(c, settings) ==
    LET f    == filtered_settings(settings)
        popK == {k \in DOMAIN f : ~Truthy(f[k])}
    IN  [k \in (DOMAIN c \cup DOMAIN f) \ popK |-> IF k \in DOMAIN f THEN f[k] ELSE c[k]]

\* _ai_config_cache.update(filtered_settings)
update_cache(c, settings) ==
    LET f == filtered_settings(settings)
    IN  [k \in DOMAIN c \cup DOMAIN f |-> IF k \in DOMAIN f THEN f[k] ELSE c[k]]

\* Faulty variant: a falsy value leaves the os.environ entry in place.
update_environ_no_pop(e, settings) ==
    LET f      == filtered_settings(settings)
        setK   == {k \in DOMAIN f : Truthy(f[k])}
    IN  [k \in DOMAIN e \cup setK |-> IF k \in setK THEN f[k] ELSE e[k]]

\* Faulty variant: a truthy PROXY_URL is applied to the proxy entries at once.
update_environ_sets_proxy(e, settings) ==
    LET f      == filtered_settings(settings)
        setK   == {k \in DOMAIN f : Truthy(f[k])}
        popK   == {k \in DOMAIN f : ~Truthy(f[k])}
        e1     == [k \in (DOMAIN e \ popK) \cup setK |-> IF k \in setK THEN f[k] ELSE e[k]]
    IN  IF "PROXY_URL" \in setK
        THEN [k \in DOMAIN e1 \cup ProxyKeys |->
                 IF k \in ProxyKeys THEN f["PROXY_URL"] ELSE e1[k]]
        ELSE e1

\* for key, value in filtered_settings.items(): set or pop os.environ[key]
update_environ(e, settings) ==
    LET f      == filtered_settings(settings)
        setK   == {k \in DOMAIN f : Truthy(f[k])}
        popK   == {k \in DOMAIN f : ~Truthy(f[k])}
    IN  [k \in (DOMAIN e \ popK) \cup setK |-> IF k \in setK THEN f[k] ELSE e[k]]

update_ai_config_cache(c, e, settings) ==
    [cache |-> update_cache(c, settings), env |-> update_environ(e, settings)]

\* ------------------------------------------------------------------------
\* clear_ai_config_cache()
\* ------------------------------------------------------------------------
\* Faulty variant: only the falsy entries are dropped.
clear_ai_config_cache_truthy_kept(c) == [k \in {x \in DOMAIN c : Truthy(c[x])} |-> c[k]]

clear_ai_config_cache(c) == EmptyDict

\* ------------------------------------------------------------------------
\* init_ai_client()
\* ------------------------------------------------------------------------

\* The value of the client slot when it holds Python's None.
NoClient == [api_key |-> None, base_url |-> None, id |-> 0]

\* Faulty variant: a handle that replaces a live one keeps that one's API
\* key and endpoint.
NewHandle_keeps_old(api_key, base_url, old) ==
    IF old = NoClient
    THEN [api_key |-> api_key, base_url |-> base_url, id |-> 1]
    ELSE [api_key |-> old.api_key, base_url |-> old.base_url, id |-> (old.id % 2) + 1]

\* AsyncOpenAI(api_key=..., base_url=...): a new object, distinct from the
\* object the slot still references while it is being constructed (id is the
\* object's identity).
NewHandle(api_key, base_url, old) ==
    [api_key |-> api_key, base_url |-> base_url,
     id |-> IF old = NoClient THEN 1 ELSE (old.id % 2) + 1]

\* Faulty variant: a falsy proxy URL leaves the two entries in place.
set_proxy_no_clear(e, proxy_url) ==
    IF Truthy(proxy_url)
    THEN DictSet(DictSet(e, "HTTP_PROXY", proxy_url), "HTTPS_PROXY", proxy_url)
    ELSE e

\* Faulty variant: the entries are written only when HTTP_PROXY is not set
\* yet, and removed otherwise.
set_proxy_toggle(e, proxy_url) ==
    IF Truthy(proxy_url) /\ "HTTP_PROXY" \notin DOMAIN e
    THEN DictSet(DictSet(e, "HTTP_PROXY", proxy_url), "HTTPS_PROXY", proxy_url)
    ELSE DictPop(DictPop(e, "HTTP_PROXY"), "HTTPS_PROXY")

\* the proxy branch of the try block
set_proxy(e, proxy_url) ==
    IF Truthy(proxy_url)
    THEN DictSet(DictSet(e, "HTTP_PROXY", proxy_url), "HTTPS_PROXY", proxy_url)
    ELSE DictPop(DictPop(e, "HTTP_PROXY"), "HTTPS_PROXY")

\* Faulty variant: any() instead of all().
complete_any(base_url, model_name) == Truthy(base_url) \/ Truthy(model_name)

\* the completeness check: all([base_url, model_name])
complete(base_url, model_name) == Truthy(base_url) /\ Truthy(model_name)

\* Faulty variant: the slot is left as it was when the settings are incomplete.
on_incomplete_keep(cl) == cl

\* the slot after the completeness check failed: client = None
on_incomplete(cl) == NoClient

\* Faulty variant: the slot is left as it was when the constructor raises.
on_construct_error_keep(cl) == cl

\* the slot after the constructor raised (the except block): client = None
on_construct_error(cl) == NoClient

\* constructs is the outcome of the AsyncOpenAI constructor: TRUE when it
\* returns an object, FALSE when it raises.  checked tells whether the call
\* got past the completeness check.
init_ai_client(c, e, cl, constructs) ==
    LET g1 == get_ai_config(c, e, "OPENAI_API_KEY", None)
        g2 == get_ai_config(g1.cache, e, "OPENAI_BASE_URL", None)
        g3 == get_ai_config(g2.cache, e, "OPENAI_MODEL_NAME", None)
        g4 == get_ai_config(g3.cache, e, "PROXY_URL", None)
        api_key    == g1.ret
        base_url   == g2.ret
        model_name == g3.ret
        proxy_url  == g4.ret
    IN  IF ~complete(base_url, model_name)
        THEN [ret |-> FALSE, cache |-> g4.cache, env |-> e,
              client |-> on_incomplete(cl), checked |-> FALSE]
        ELSE IF constructs
        THEN [ret |-> TRUE, cache |-> g4.cache, env |-> set_proxy(e, proxy_url),
              client |-> NewHandle(api_key, base_url, cl), checked |-> TRUE]
        ELSE [ret |-> FALSE, cache |-> g4.cache, env |-> set_proxy(e, proxy_url),
              client |-> on_construct_error(cl), checked |-> TRUE]

\* Faulty variant: the slot is emptied at the start of the try block.
init_proxy_step_clears(e, cl, proxy_url) ==
    [env |-> set_proxy(e, proxy_url), client |-> NoClient]

\* The try block up to the constructor call: os.environ and the client
\* slot after it.
init_proxy_step(e, cl, proxy_url) ==
    [env |-> set_proxy(e, proxy_url), client |-> cl]

\* ------------------------------------------------------------------------
\* Module-level start-up code
\* ------------------------------------------------------------------------

\* The module-level reads, in source order: <<key, default>>.
BootReads ==
    << <<"OPENAI_API_KEY", None>>, <<"OPENAI_BASE_URL", None>>,
       <<"OPENAI_MODEL_NAME", None>>, <<"PROXY_URL", None>>,
       <<"NTFY_TOPIC_URL", None>>, <<"GOTIFY_URL", None>>,
       <<"GOTIFY_TOKEN", None>>, <<"BARK_URL", None>>,
       <<"WX_BOT_URL", None>>, <<"TELEGRAM_BOT_TOKEN", None>>,
       <<"TELEGRAM_CHAT_ID", None>>, <<"WEBHOOK_URL", None>>,
       <<"WEBHOOK_METHOD", "POST">>, <<"WEBHOOK_HEADERS", None>>,
       <<"WEBHOOK_CONTENT_TYPE", "JSON">>, <<"WEBHOOK_QUERY_PARAMETERS", None>>,
       <<"WEBHOOK_BODY", None>>, <<"PCURL_TO_MOBILE", "false">>,
       <<"RUN_HEADLESS", "true">>, <<"LOGIN_IS_EDGE", "false">>,
       <<"RUNNING_IN_DOCKER", "false">>, <<"AI_DEBUG_MODE", "false">>,
       <<"SKIP_AI_ANALYSIS", "false">>, <<"ENABLE_THINKING", "false">>,
       <<"ENABLE_RESPONSE_FORMAT", "true">>, <<"WEBHOOK_ENABLE_MARKDOWN", "false">> >>

\* str.lower() on the strings of the model (every other string of the model
\* has no upper-case letter).
Lower(s) ==
    CASE s = "TRUE"  -> "true"
      [] s = "True"  -> "true"
      [] s = "FALSE" -> "false"
      [] s = "False" -> "false"
      [] OTHER       -> s

\* The cache after the first n module-level reads.
RECURSIVE boot_cache(_, _, _)
boot_cache(c, e, n) ==
    IF n = 0
    THEN c
    ELSE get_ai_config(boot_cache(c, e, n - 1), e, BootReads[n][1], BootReads[n][2]).cache

\* The value the module-level read of key returns.
boot_value(c, e, key) ==
    LET n == CHOOSE i \in 1..Len(BootReads) : BootReads[i][1] = key
    IN  get_ai_config(boot_cache(c, e, n - 1), e, key, BootReads[n][2]).ret

\* Faulty variant: init_ai_client() is invoked whatever BASE_URL and
\* MODEL_NAME are.
bootstrap_always_init(c, e, cl, constructs) ==
    LET cache == boot_cache(c, e, Len(BootReads))
        fl == [ENABLE_THINKING |->
                   Lower(boot_value(c, e, "ENABLE_THINKING")) = "true",
               ENABLE_RESPONSE_FORMAT |->
                   Lower(boot_value(c, e, "ENABLE_RESPONSE_FORMAT")) = "true"]
        i == init_ai_client(cache, e, cl, constructs)
    IN  [cache |-> i.cache, env |-> i.env, client |-> i.client, flags |-> fl,
         init_called |-> TRUE, ret |-> i.ret, checked |-> i.checked]

\* The whole module-level code: the reads, then init_ai_client() when
\* BASE_URL and MODEL_NAME are both set.
bootstrap(c, e, cl, constructs) ==
    LET BASE_URL   == boot_value(c, e, "OPENAI_BASE_URL")
        MODEL_NAME == boot_value(c, e, "OPENAI_MODEL_NAME")
        cache      == boot_cache(c, e, Len(BootReads))
        fl == [ENABLE_THINKING |->
                   Lower(boot_value(c, e, "ENABLE_THINKING")) = "true",
               ENABLE_RESPONSE_FORMAT |->
                   Lower(boot_value(c, e, "ENABLE_RESPONSE_FORMAT")) = "true"]
    IN  IF ~complete(BASE_URL, MODEL_NAME)
        THEN [cache |-> cache, env |-> e, client |-> NoClient, flags |-> fl,
              init_called |-> FALSE, ret |-> FALSE, checked |-> FALSE]
        ELSE LET i == init_ai_client(cache, e, cl, constructs)
             IN  [cache |-> i.cache, env |-> i.env, client |-> i.client, flags |-> fl,
                  init_called |-> TRUE, ret |-> i.ret, checked |-> i.checked]

\* ------------------------------------------------------------------------
\* get_ai_request_params(**kwargs)
\* ------------------------------------------------------------------------

\* The value {"enable_thinking": False} (dict values of kwargs are written
\* as strings).
ThinkingOff == "{'enable_thinking': False}"

\* `if ENABLE_THINKING:` reads the module-level constant (fl), not the
\* cache (c) nor os.environ (e).
thinking_enabled(fl, c, e) == fl.ENABLE_THINKING

\* Faulty variant: the toggle is read through get_ai_config at call time.
response_format_enabled_live(fl, c, e) ==
    Lower(get_ai_config(c, e, "ENABLE_RESPONSE_FORMAT", "true").ret) = "true"

\* `if not ENABLE_RESPONSE_FORMAT` reads the module-level constant.
response_format_enabled(fl, c, e) == fl.ENABLE_RESPONSE_FORMAT

\* Faulty variant: an extra_body passed in is not overwritten (setdefault).
get_ai_request_params_setdefault(fl, c, e, kwargs) ==
    LET k1 == IF thinking_enabled(fl, c, e) /\ "extra_body" \notin DOMAIN kwargs
              THEN DictSet(kwargs, "extra_body", ThinkingOff)
              ELSE kwargs
    IN  IF ~response_format_enabled(fl, c, e) /\ "response_format" \in DOMAIN k1
        THEN DictPop(k1, "response_format")
        ELSE k1

get_ai_request_params(fl, c, e, kwargs) ==
    LET k1 == IF thinking_enabled(fl, c, e)
              THEN DictSet(kwargs, "extra_body", ThinkingOff)
              ELSE kwargs
    IN  IF ~response_format_enabled(fl, c, e) /\ "response_format" \in DOMAIN k1
        THEN DictPop(k1, "response_format")
        ELSE k1

\* ------------------------------------------------------------------------
\* _mask_sensitive_value.  Here a string is the sequence of its characters.
\* ------------------------------------------------------------------------

sensitive_keys == {"OPENAI_API_KEY", "GOTIFY_TOKEN", "TELEGRAM_BOT_TOKEN", "WX_BOT_URL"}

\* "****"
Stars == <<"*", "*", "*", "*">>

\* Faulty variant: a value of exactly 8 characters keeps its ends too.
mask_sensitive_value_from_8(key, value) ==
    IF key \in sensitive_keys /\ value # <<>>
    THEN IF Len(value) >= 8
         THEN SubSeq(value, 1, 4) \o Stars \o SubSeq(value, Len(value) - 3, Len(value))
         ELSE Stars
    ELSE value

\* _mask_sensitive_value(key, value)
mask_sensitive_value(key, value) ==
    IF key \in sensitive_keys /\ value # <<>>
    THEN IF Len(value) > 8
         THEN SubSeq(value, 1, 4) \o Stars \o SubSeq(value, Len(value) - 3, Len(value))
         ELSE Stars
    ELSE value

\* ------------------------------------------------------------------------
\* Inputs of the model
\* ------------------------------------------------------------------------

\* Largest number of entries of a settings mapping passed to update.
MaxSettings == 2

\* Truthy and falsy configuration strings.
Values == {"", "a", "b"}

\* Values of a settings mapping: strings, or None.
SettingValues == Values \cup {None}

\* Defaults passed to get_ai_config.
Defaults == {None, "", "a"}

\* The mappings over at most MaxSettings of the given keys, the value of
\* key k drawn from vals[k].
Mappings(keys, vals) ==
    UNION { {f \in [K -> SettingValues] : \A k \in K : f[k] \in vals[k]} :
            K \in {K \in SUBSET keys : Cardinality(K) <= MaxSettings} }

\* Specification Spec (the cache): calls on two whitelisted keys and one
\* key outside the whitelist; every value for PROXY_URL, a falsy and a
\* truthy one for the others.
CallKeys == {"OPENAI_BASE_URL", "PROXY_URL", "HOME"}

SettingsInputs ==
    Mappings(CallKeys,
             [k \in CallKeys |-> IF k = "PROXY_URL" THEN SettingValues ELSE {"", "a"}])

\* os.environ when the module is imported.
InitEnvs ==
    { EmptyDict,
      [k \in {"OPENAI_BASE_URL", "OPENAI_MODEL_NAME", "HOME"} |-> "a"],
      [k \in {"OPENAI_BASE_URL", "OPENAI_MODEL_NAME", "OPENAI_API_KEY", "PROXY_URL"} |-> "a"],
      [k \in {"OPENAI_BASE_URL", "OPENAI_MODEL_NAME", "HTTP_PROXY"} |->
          IF k = "OPENAI_BASE_URL" THEN "" ELSE "b"],
      [k \in {"ENABLE_THINKING", "ENABLE_RESPONSE_FORMAT", "HTTPS_PROXY"} |->
          IF k = "ENABLE_THINKING" THEN "TRUE" ELSE IF k = "HTTPS_PROXY" THEN "a" ELSE "false"] }

\* Specification SpecClient (the client slot): updates of the four keys
\* init_ai_client reads (the proxy URL or the API key alone, the endpoint
\* and the model together); three proxy values, a falsy and a truthy value
\* for the other keys.
ClientSettingsInputs ==
    [{"PROXY_URL"} -> Values]
    \cup [{"OPENAI_API_KEY"} -> {"", "a"}]
    \cup [{"OPENAI_BASE_URL", "OPENAI_MODEL_NAME"} -> {"", "a"}]

ClientGetKeys == {"PROXY_URL"}

\* Specification SpecHandle (what the handle is built from): updates of the
\* API key and the endpoint, alone or together, with two truthy values.
HandleSettingsInputs ==
    [{"OPENAI_API_KEY"} -> Values]
    \cup [{"OPENAI_BASE_URL"} -> {"a", "b"}]
    \cup [{"OPENAI_API_KEY", "OPENAI_BASE_URL"} -> {"a", "b"}]

HandleGetKeys == {"OPENAI_API_KEY"}

\* Specification SpecFlags (the request parameters): os.environ at import
\* gives each toggle no value, "TRUE" or "false"; updates and reads of the
\* two toggles; get_ai_request_params on every kwargs below.
FlagKeys == {"ENABLE_THINKING", "ENABLE_RESPONSE_FORMAT"}

FlagEnvs ==
    UNION { { [k \in K \cup {"OPENAI_BASE_URL", "OPENAI_MODEL_NAME"} |->
                 IF k \in K THEN f[k] ELSE "a"] : f \in [K -> {"TRUE", "false"}] } :
            K \in SUBSET FlagKeys }

FlagSettingsInputs == UNION { [{k} -> {"true", "false"}] : k \in FlagKeys }

KwargsInputs ==
    UNION { {f \in [K -> {"m", "json_object", "x", ThinkingOff}] :
                /\ "model" \in K => f["model"] = "m"
                /\ "response_format" \in K => f["response_format"] = "json_object"
                /\ "extra_body" \in K => f["extra_body"] \in {"x", ThinkingOff}} :
            K \in SUBSET {"model", "response_format", "extra_body"} }

\* The longest value given to _mask_sensitive_value.
MaxLen == 9

\* The characters of the values given to _mask_sensitive_value.
MaskAlphabet == {"s", "k"}

\* The values given to _mask_sensitive_value: every string of at most
\* MaxLen characters.
MaskValues == UNION { [1..n -> MaskAlphabet] : n \in 0..MaxLen }

\* The keys given to _mask_sensitive_value: two secret ones, one that is not.
MaskKeys == {"OPENAI_API_KEY", "WX_BOT_URL", "OPENAI_BASE_URL"}

\* The os.environ values at import, for SpecMask.
MaskEnvs == {EmptyDict, [k \in {"OPENAI_API_KEY"} |-> "a"]}

\* The keys get_ai_config is called with in SpecMask.
MaskGetKeys == {"OPENAI_API_KEY"}

\* Specification SpecRace (get_ai_config interleaved with
\* update_ai_config_cache): reads and one-entry updates of one whitelisted
\* key.
RaceKeys == {"PROXY_URL"}

RaceSettingsInputs == UNION { [{k} -> Values] : k \in RaceKeys }

\* ------------------------------------------------------------------------
\* State machine
\* ------------------------------------------------------------------------

\* No call in progress.  A frame holds the position (pc) and the locals of
\* a call of init_ai_client, get_ai_config, update_ai_config_cache or
\* _mask_sensitive_value that has not returned yet.
NoFrames ==
    [init   |-> [pc |-> "idle", api_key |-> None, base_url |-> None,
                 model_name |-> None, proxy_url |-> None, old |-> NoClient],
     get    |-> [pc |-> "idle", key |-> None, default |-> None, value |-> None,
                 with |-> EmptyDict],
     update |-> [pc |-> "idle", settings |-> EmptyDict, with |-> None],
     mask   |-> [pc |-> "idle", key |-> None, value |-> <<>>, result |-> <<>>]]

\* The call was an update that gave the endpoint and the model truthy values.
EndpointUpdate(call) ==
    /\ call.kind = "update"
    /\ {"OPENAI_BASE_URL", "OPENAI_MODEL_NAME"} \subseteq DOMAIN call.settings
    /\ Truthy(call.settings["OPENAI_BASE_URL"])
    /\ Truthy(call.settings["OPENAI_MODEL_NAME"])

\* The record of the call that produced a state: its kind and arguments,
\* the value get_ai_config returned (ret) or the boolean init_ai_client
\* returned (success), and what it found: the client slot and (for
\* clear) the cache before it, whether init_ai_client was entered (called),
\* got past the completeness check (checked) and the constructor returned
\* (constructs), whether update replaced a differing cache entry by a
\* truthy value (replaced) and found an os.environ entry for a key it was
\* given a falsy value for (removed), and whether init_ai_client was called
\* right after an update that set the endpoint and the model (after_update)
\* and the kind of the call before init_ai_client (prev); for
\* get_ai_request_params, settings is kwargs and result the dict returned;
\* raced tells that the call was the second to return of a get_ai_config
\* (on key) and an update_ai_config_cache (of settings, which has key) that
\* ran interleaved.
NoCall ==
    [kind |-> "none", key |-> None, default |-> None, settings |-> EmptyDict,
     ret |-> None, success |-> FALSE, old |-> NoClient, old_cache |-> EmptyDict,
     called |-> FALSE, checked |-> FALSE, constructs |-> FALSE,
     replaced |-> FALSE, removed |-> FALSE, after_update |-> FALSE,
     prev |-> "none", result |-> EmptyDict, raced |-> FALSE]

Init ==
    /\ ai_config_cache = EmptyDict
    /\ environ \in InitEnvs
    /\ client = NoClient
    /\ flags = [ENABLE_THINKING |-> FALSE, ENABLE_RESPONSE_FORMAT |-> FALSE]
    /\ pc = "boot"
    /\ frames = NoFrames
    /\ last = NoCall

\* import of the module
Bootstrap(constructs) ==
    /\ pc = "boot"
    /\ LET b == bootstrap(ai_config_cache, environ, client, constructs)
       IN  /\ ai_config_cache' = b.cache
           /\ environ' = b.env
           /\ client' = b.client
           /\ flags' = b.flags
           /\ last' = [NoCall EXCEPT !.kind = "bootstrap", !.success = b.ret,
                                     !.old = client, !.called = b.init_called,
                                     !.checked = b.checked,
                                     !.constructs = b.checked /\ constructs]
    /\ pc' = "run"
    /\ UNCHANGED frames

\* get_ai_config(key, default)
Get(key, default) ==
    /\ pc = "run"
    /\ LET g == get_ai_config(ai_config_cache, environ, key, default)
       IN  /\ ai_config_cache' = g.cache
           /\ last' = [NoCall EXCEPT !.kind = "get", !.key = key,
                                     !.default = default, !.ret = g.ret,
                                     !.old = client]
    /\ UNCHANGED <<environ, client, flags, pc, frames>>

\* update_ai_config_cache(settings)
Update(settings) ==
    /\ pc = "run"
    /\ LET u == update_ai_config_cache(ai_config_cache, environ, settings)
           f == [k \in DOMAIN settings \cap CONFIG_CACHE_KEYS |-> settings[k]]
       IN  /\ ai_config_cache' = u.cache
           /\ environ' = u.env
           /\ last' = [NoCall EXCEPT
                 !.kind = "update", !.settings = settings, !.old = client,
                 !.replaced = \E k \in DOMAIN f :
                                 /\ Truthy(f[k])
                                 /\ k \in DOMAIN ai_config_cache
                                 /\ ai_config_cache[k] # f[k],
                 !.removed = \E k \in DOMAIN f :
                                 ~Truthy(f[k]) /\ k \in DOMAIN environ]
    /\ UNCHANGED <<client, flags, pc, frames>>

\* clear_ai_config_cache()
Clear ==
    /\ pc = "run"
    /\ ai_config_cache' = clear_ai_config_cache(ai_config_cache)
    /\ last' = [NoCall EXCEPT !.kind = "clear", !.old = client,
                              !.old_cache = ai_config_cache]
    /\ UNCHANGED <<environ, client, flags, pc, frames>>

\* init_ai_client()
InitClient(constructs) ==
    /\ pc = "run"
    /\ LET i == init_ai_client(ai_config_cache, environ, client, constructs)
       IN  /\ ai_config_cache' = i.cache
           /\ environ' = i.env
           /\ client' = i.client
           /\ last' = [NoCall EXCEPT !.kind = "init", !.success = i.ret,
                                     !.old = client, !.called = TRUE,
                                     !.checked = i.checked,
                                     !.constructs = i.checked /\ constructs,
                                     !.after_update = EndpointUpdate(last),
                                     !.prev = last.kind]
    /\ UNCHANGED <<flags, pc, frames>>

Next ==
    \/ \E constructs \in BOOLEAN : Bootstrap(constructs)
    \/ \E key \in CallKeys, default \in Defaults : Get(key, default)
    \/ \E settings \in SettingsInputs : Update(settings)
    \/ Clear
    \/ \E constructs \in BOOLEAN : InitClient(constructs)

Spec == Init /\ [][Next]_vars

NextClient ==
    \/ \E constructs \in BOOLEAN : Bootstrap(constructs)
    \/ \E key \in ClientGetKeys : Get(key, None)
    \/ \E settings \in ClientSettingsInputs : Update(settings)
    \/ Clear
    \/ \E constructs \in BOOLEAN : InitClient(constructs)

SpecClient == Init /\ [][NextClient]_vars

NextHandle ==
    \/ \E constructs \in BOOLEAN : Bootstrap(constructs)
    \/ \E key \in HandleGetKeys : Get(key, None)
    \/ \E settings \in HandleSettingsInputs : Update(settings)
    \/ Clear
    \/ \E constructs \in BOOLEAN : InitClient(constructs)

SpecHandle == Init /\ [][NextHandle]_vars

\* The state before the module is imported, for SpecFlags.
InitFlags ==
    /\ ai_config_cache = EmptyDict
    /\ environ \in FlagEnvs
    /\ client = NoClient
    /\ flags = [ENABLE_THINKING |-> FALSE, ENABLE_RESPONSE_FORMAT |-> FALSE]
    /\ pc = "boot"
    /\ frames = NoFrames
    /\ last = NoCall

\* get_ai_request_params(**kwargs)
Build(kwargs) ==
    /\ pc = "run"
    /\ last' = [NoCall EXCEPT
          !.kind = "build", !.settings = kwargs, !.old = client,
          !.result = get_ai_request_params(flags, ai_config_cache, environ, kwargs)]
    /\ UNCHANGED <<ai_config_cache, environ, client, flags, pc, frames>>

NextFlags ==
    \/ \E constructs \in BOOLEAN : Bootstrap(constructs)
    \/ \E key \in FlagKeys : Get(key, "false")
    \/ \E settings \in FlagSettingsInputs : Update(settings)
    \/ Clear
    \/ \E constructs \in BOOLEAN : InitClient(constructs)
    \/ \E kwargs \in KwargsInputs : Build(kwargs)

SpecFlags == InitFlags /\ [][NextFlags]_vars

\* The state before the module is imported, with a call of
\* _mask_sensitive_value(key, value) about to run, for SpecMask.
InitMask ==
    /\ ai_config_cache = EmptyDict
    /\ environ \in MaskEnvs
    /\ client = NoClient
    /\ flags = [ENABLE_THINKING |-> FALSE, ENABLE_RESPONSE_FORMAT |-> FALSE]
    /\ pc = "boot"
    /\ \E key \in MaskKeys, value \in MaskValues :
           frames = [NoFrames EXCEPT !.mask = [pc |-> "call", key |-> key,
                                               value |-> value, result |-> <<>>]]
    /\ last = NoCall

\* _mask_sensitive_value(key, value) runs and returns
Mask ==
    /\ frames.mask.pc = "call"
    /\ frames' = [frames EXCEPT
          !.mask.pc = "done",
          !.mask.result = mask_sensitive_value(frames.mask.key, frames.mask.value)]
    /\ last' = [NoCall EXCEPT !.kind = "mask", !.old = client]
    /\ UNCHANGED <<ai_config_cache, environ, client, flags, pc>>

NextMask ==
    \/ \E constructs \in BOOLEAN : Bootstrap(constructs)
    \/ \E key \in MaskGetKeys : Get(key, None)
    \/ Mask

SpecMask == InitMask /\ [][NextMask]_vars

\* A step inside a call that has not returned.
StepCall == [NoCall EXCEPT !.kind = "step", !.old = client]

\* init_ai_client(), statement by statement.
\* Entry: the four get_ai_config calls (lines 168-171).
InitEnter ==
    /\ pc = "run"
    /\ frames.init.pc = "idle"
    /\ LET g1 == get_ai_config(ai_config_cache, environ, "OPENAI_API_KEY", None)
           g2 == get_ai_config(g1.cache, environ, "OPENAI_BASE_URL", None)
           g3 == get_ai_config(g2.cache, environ, "OPENAI_MODEL_NAME", None)
           g4 == get_ai_config(g3.cache, environ, "PROXY_URL", None)
       IN  /\ ai_config_cache' = g4.cache
           /\ frames' = [frames EXCEPT !.init =
                 [pc |-> "check", api_key |-> g1.ret, base_url |-> g2.ret,
                  model_name |-> g3.ret, proxy_url |-> g4.ret, old |-> client]]
    /\ last' = StepCall
    /\ UNCHANGED <<environ, client, flags, pc>>

\* The completeness check (lines 182-185).
InitCheck ==
    /\ frames.init.pc = "check"
    /\ IF ~complete(frames.init.base_url, frames.init.model_name)
       THEN /\ client' = on_incomplete(client)
            /\ frames' = [frames EXCEPT !.init = NoFrames.init]
            /\ last' = [NoCall EXCEPT !.kind = "init", !.success = FALSE,
                                      !.old = frames.init.old, !.called = TRUE,
                                      !.prev = "step"]
       ELSE /\ frames' = [frames EXCEPT !.init.pc = "proxy"]
            /\ last' = StepCall
            /\ UNCHANGED client
    /\ UNCHANGED <<ai_config_cache, environ, flags, pc>>

\* The proxy branch of the try block (lines 188-196).
InitProxy ==
    /\ frames.init.pc = "proxy"
    /\ LET p == init_proxy_step(environ, client, frames.init.proxy_url)
       IN  /\ environ' = p.env
           /\ client' = p.client
    /\ frames' = [frames EXCEPT !.init.pc = "construct"]
    /\ last' = StepCall
    /\ UNCHANGED <<ai_config_cache, flags, pc>>

\* The constructor call and the slot assignment (line 199), or the except
\* block (lines 202-205).
InitConstruct(constructs) ==
    /\ frames.init.pc = "construct"
    /\ client' = IF constructs
                 THEN NewHandle(frames.init.api_key, frames.init.base_url, client)
                 ELSE on_construct_error(client)
    /\ frames' = [frames EXCEPT !.init = NoFrames.init]
    /\ last' = [NoCall EXCEPT !.kind = "init", !.success = constructs,
                              !.old = frames.init.old, !.called = TRUE,
                              !.checked = TRUE, !.constructs = constructs,
                              !.prev = "step"]
    /\ UNCHANGED <<ai_config_cache, environ, flags, pc>>

\* Another thread of control reads the module's client attribute; old is
\* the value it gets.
ReadHandle ==
    /\ pc = "run"
    /\ last' = [NoCall EXCEPT !.kind = "read", !.old = client]
    /\ UNCHANGED <<ai_config_cache, environ, client, flags, pc, frames>>

\* update_ai_config_cache(settings) while no init_ai_client is running.
SerialUpdate(settings) ==
    /\ frames.init.pc = "idle"
    /\ Update(settings)

NextInitSteps ==
    \/ \E constructs \in BOOLEAN : Bootstrap(constructs)
    \/ \E settings \in HandleSettingsInputs : SerialUpdate(settings)
    \/ InitEnter
    \/ InitCheck
    \/ InitProxy
    \/ \E constructs \in BOOLEAN : InitConstruct(constructs)
    \/ ReadHandle

SpecInitSteps == Init /\ [][NextInitSteps]_vars

\* get_ai_config(key, default), statement by statement.
\* Entry: the whitelist test and the cache lookup (lines 55-60).
GetEnter(key, default) ==
    /\ pc = "run"
    /\ frames.get.pc = "idle"
    /\ IF key \notin CONFIG_CACHE_KEYS \/ key \in DOMAIN ai_config_cache
       THEN /\ last' = [NoCall EXCEPT
                  !.kind = "get", !.key = key, !.default = default, !.old = client,
                  !.ret = IF key \in CONFIG_CACHE_KEYS THEN ai_config_cache[key]
                          ELSE getenv(environ, key, default)]
            /\ UNCHANGED frames
       ELSE LET overlap == /\ frames.update.pc # "idle"
                           /\ key \in DOMAIN filtered_settings(frames.update.settings)
            IN  /\ frames' = [frames EXCEPT
                      !.get = [pc |-> "read_env", key |-> key, default |-> default,
                               value |-> None,
                               with |-> IF overlap THEN frames.update.settings
                                        ELSE EmptyDict],
                      !.update.with = IF overlap THEN key ELSE @]
                /\ last' = StepCall
    /\ UNCHANGED <<ai_config_cache, environ, client, flags, pc>>

\* value = os.getenv(key, default) (line 62)
GetReadEnv ==
    /\ frames.get.pc = "read_env"
    /\ frames' = [frames EXCEPT
          !.get.pc = "store",
          !.get.value = getenv(environ, frames.get.key, frames.get.default)]
    /\ last' = StepCall
    /\ UNCHANGED <<ai_config_cache, environ, client, flags, pc>>

\* if value: _ai_config_cache[key] = value; return value (lines 64-70)
GetStore ==
    /\ frames.get.pc = "store"
    /\ ai_config_cache' = IF Truthy(frames.get.value)
                          THEN DictSet(ai_config_cache, frames.get.key, frames.get.value)
                          ELSE ai_config_cache
    /\ frames' = [frames EXCEPT !.get = NoFrames.get]
    /\ last' = [NoCall EXCEPT
          !.kind = "get", !.key = frames.get.key, !.default = frames.get.default,
          !.ret = frames.get.value, !.old = client,
          !.settings = frames.get.with,
          !.raced = frames.get.with # EmptyDict /\ frames.update.pc = "idle"]
    /\ UNCHANGED <<environ, client, flags, pc>>

\* update_ai_config_cache(settings), statement by statement.
\* Entry: the filter and _ai_config_cache.update (lines 84-93).
UpdateCache(settings) ==
    /\ pc = "run"
    /\ frames.update.pc = "idle"
    /\ ai_config_cache' = update_cache(ai_config_cache, settings)
    /\ LET overlap == /\ frames.get.pc # "idle"
                      /\ frames.get.key \in DOMAIN filtered_settings(settings)
       IN  frames' = [frames EXCEPT
              !.update = [pc |-> "environ", settings |-> settings,
                          with |-> IF overlap THEN frames.get.key ELSE None],
              !.get.with = IF overlap THEN settings ELSE @]
    /\ last' = StepCall
    /\ UNCHANGED <<environ, client, flags, pc>>

\* The loop over filtered_settings that sets or pops os.environ (lines 95-100).
UpdateEnviron ==
    /\ frames.update.pc = "environ"
    /\ environ' = update_environ(environ, frames.update.settings)
    /\ frames' = [frames EXCEPT !.update = NoFrames.update]
    /\ last' = [NoCall EXCEPT
          !.kind = "update", !.settings = frames.update.settings, !.old = client,
          !.key = frames.update.with,
          !.raced = frames.update.with # None /\ frames.get.pc = "idle"]
    /\ UNCHANGED <<ai_config_cache, client, flags, pc>>

\* clear_ai_config_cache() while no get_ai_config and no
\* update_ai_config_cache is running.
SerialClear ==
    /\ frames.get.pc = "idle"
    /\ frames.update.pc = "idle"
    /\ Clear

NextRace ==
    \/ \E constructs \in BOOLEAN : Bootstrap(constructs)
    \/ SerialClear
    \/ \E key \in RaceKeys, default \in Defaults : GetEnter(key, default)
    \/ GetReadEnv
    \/ GetStore
    \/ \E settings \in RaceSettingsInputs : UpdateCache(settings)
    \/ UpdateEnviron

SpecRace == Init /\ [][NextRace]_vars

\* ------------------------------------------------------------------------
\* Properties
\* ------------------------------------------------------------------------

\* The value get_ai_config(key, default) returns in the current state.
GetRet(key, default) == get_ai_config(ai_config_cache, environ, key, default).ret

\* C1: every key of the cache is in the whitelist; a get on a key outside
\* the whitelist leaves that key out of the cache and returns the os.environ
\* value, or the default when there is none.
C1_CacheKeysWhitelisted ==
    /\ DOMAIN ai_config_cache \subseteq CONFIG_CACHE_KEYS
    /\ (last.kind = "get" /\ last.key \notin CONFIG_CACHE_KEYS) =>
           /\ last.key \notin DOMAIN ai_config_cache
           /\ last.ret = IF last.key \in DOMAIN environ
                         THEN environ[last.key] ELSE last.default

\* C1 witness: a get on a key outside the whitelist returned its os.environ
\* value while the cache holds other entries.
C1_Witness ==
    /\ last.kind = "get"
    /\ last.key \notin CONFIG_CACHE_KEYS
    /\ last.key \in DOMAIN environ
    /\ last.ret = "a"
    /\ "PROXY_URL" \in DOMAIN ai_config_cache

\* C2: right after update(settings), for every whitelisted key k that
\* settings maps to a truthy v, get(k) returns v with any default and
\* os.environ[k] is v.
C2_UpdateThenGet ==
    last.kind = "update" =>
        \A k \in DOMAIN last.settings \cap CONFIG_CACHE_KEYS :
            Truthy(last.settings[k]) =>
                /\ \A d \in Defaults \cup Values : GetRet(k, d) = last.settings[k]
                /\ k \in DOMAIN environ
                /\ environ[k] = last.settings[k]

\* C2 witness: an update wrote a truthy value over a differing cache entry.
C2_Witness ==
    /\ last.kind = "update"
    /\ last.replaced
    /\ "PROXY_URL" \in DOMAIN last.settings
    /\ last.settings["PROXY_URL"] = "b"

\* C3: right after update(settings), os.environ has no entry for any
\* whitelisted key that settings maps to a falsy value.
C3_FalsyUpdateRemovesEnviron ==
    last.kind = "update" =>
        \A k \in DOMAIN last.settings \cap CONFIG_CACHE_KEYS :
            ~Truthy(last.settings[k]) => k \notin DOMAIN environ

\* C3 witness: an update with a falsy value found an os.environ entry for
\* that key.
C3_Witness ==
    /\ last.kind = "update"
    /\ last.removed

\* C4: right after clear() the cache is empty and get(k, d) on any
\* whitelisted key returns the os.environ value of k, or d when there is
\* none.
C4_ClearThenGet ==
    last.kind = "clear" =>
        /\ DOMAIN ai_config_cache = {}
        /\ \A k \in CONFIG_CACHE_KEYS, d \in Defaults :
               GetRet(k, d) = IF k \in DOMAIN environ THEN environ[k] ELSE d

\* C4 witness: clear() dropped a cached value that differs from os.environ.
C4_Witness ==
    /\ last.kind = "clear"
    /\ \E k \in DOMAIN last.old_cache :
           k \notin DOMAIN environ \/ environ[k] # last.old_cache[k]

\* The HTTP_PROXY / HTTPS_PROXY entries of an environment.
ProxyEntries(e) == [k \in ProxyKeys \cap DOMAIN e |-> e[k]]

\* C5: an init_ai_client() call made while get(OPENAI_BASE_URL) or
\* get(OPENAI_MODEL_NAME) is falsy returns False, leaves the client slot
\* None and leaves the HTTP_PROXY / HTTPS_PROXY entries as they were.
C5_IncompleteInitLeavesProxy ==
    [][ ( /\ last'.kind = "init"
          /\ \/ ~Truthy(GetRet("OPENAI_BASE_URL", None))
             \/ ~Truthy(GetRet("OPENAI_MODEL_NAME", None)) )
        => /\ last'.success = FALSE
           /\ client' = NoClient
           /\ ProxyEntries(environ') = ProxyEntries(environ) ]_vars

\* C5 witness: init failed the completeness check from Ready, with a
\* PROXY_URL that differs from the proxy entries of the last init.
C5_Witness ==
    /\ last.kind = "init"
    /\ ~last.checked
    /\ last.success = FALSE
    /\ last.old # NoClient
    /\ "HTTP_PROXY" \in DOMAIN environ
    /\ Truthy(GetRet("PROXY_URL", None))
    /\ GetRet("PROXY_URL", None) # environ["HTTP_PROXY"]

\* C6: an init_ai_client() call that gets past the completeness check
\* leaves HTTP_PROXY and HTTPS_PROXY equal to the proxy URL it read when
\* that is truthy and absent otherwise, whether or not the constructor
\* raised; no other call changes the two entries.
C6_ProxyFollowsInit ==
    [][ /\ ( (last'.kind \in {"init", "bootstrap"} /\ last'.checked) =>
               LET proxy_url == GetRet("PROXY_URL", None)
               IN  IF Truthy(proxy_url)
                   THEN ProxyEntries(environ') = [k \in ProxyKeys |-> proxy_url]
                   ELSE ProxyEntries(environ') = EmptyDict )
        /\ ( ProxyEntries(environ') # ProxyEntries(environ) =>
               (last'.kind \in {"init", "bootstrap"} /\ last'.checked) ) ]_vars

\* C6 witness: the constructor raised and the proxy entries hold the proxy
\* URL of that call.
C6_Witness ==
    /\ last.kind = "init"
    /\ last.checked
    /\ ~last.constructs
    /\ ProxyEntries(environ) = [k \in ProxyKeys |-> "b"]

\* C7: after init_ai_client() the call returned True exactly when the slot
\* holds a handle, that handle is a new object, and a handle that was live
\* before the call is not in the slot.
C7_InitReplacesHandle ==
    last.kind = "init" =>
        /\ (last.success = TRUE) <=> (client # NoClient)
        /\ (last.success = FALSE) <=> (client = NoClient)
        /\ client # NoClient => client.id # last.old.id
        /\ last.old # NoClient => client # last.old

\* C7 witness: init from Ready ended Ready.
C7_Witness ==
    /\ last.kind = "init"
    /\ last.success = TRUE
    /\ last.old # NoClient
    /\ client # NoClient

\* C8 as stated: the init_ai_client() call that follows an update giving
\* the endpoint and the model truthy values returns True and leaves a
\* handle in the slot.
C8_InitSucceedsAfterUpdate ==
    (last.kind = "init" /\ last.after_update) =>
        (last.success = TRUE /\ client # NoClient)

\* C8 amended: that init_ai_client() call gets past the completeness check;
\* it returns True and leaves a handle in the slot exactly when the
\* constructor does not raise, and returns False with the slot None when it
\* raises.
C8_InitAfterUpdate ==
    (last.kind = "init" /\ last.after_update) =>
        /\ last.checked
        /\ (last.success = TRUE) <=> last.constructs
        /\ (client # NoClient) <=> last.constructs

\* C8 witness: init right after such an update succeeded with no API key
\* configured.
C8_Witness ==
    /\ last.kind = "init"
    /\ last.after_update
    /\ last.success = TRUE
    /\ client # NoClient
    /\ client.api_key = None

\* C9: a get on a whitelisted key returns the cached value when there is
\* one and os.getenv(key, default) otherwise; it leaves os.environ and the
\* client slot alone, keeps every cache entry, adds no entry but the one
\* for key, and changes the cache only when it returns a truthy value.
C9_GetCacheFirstReadOnly ==
    [][ (last'.kind = "get" /\ last'.key \in CONFIG_CACHE_KEYS) =>
          LET k == last'.key
              d == last'.default
          IN  /\ k \in DOMAIN ai_config_cache => last'.ret = ai_config_cache[k]
              /\ k \notin DOMAIN ai_config_cache =>
                     last'.ret = IF k \in DOMAIN environ THEN environ[k] ELSE d
              /\ environ' = environ
              /\ client' = client
              /\ \A j \in DOMAIN ai_config_cache :
                     j \in DOMAIN ai_config_cache' /\ ai_config_cache'[j] = ai_config_cache[j]
              /\ DOMAIN ai_config_cache' \subseteq DOMAIN ai_config_cache \cup {k}
              /\ ai_config_cache' # ai_config_cache => Truthy(last'.ret) ]_vars

\* C9 witness: a get returned a cached value that os.environ does not hold.
C9_Witness ==
    /\ last.kind = "get"
    /\ last.key \in CONFIG_CACHE_KEYS
    /\ last.key \in DOMAIN ai_config_cache
    /\ last.ret = ai_config_cache[last.key]
    /\ last.key \in DOMAIN environ => environ[last.key] # last.ret
    /\ last.default # last.ret

\* C10: every truthy cache entry equals the os.environ entry of its key
\* (get caches only what os.environ holds, never the default).
C10_CacheMirrorsEnviron ==
    \A k \in DOMAIN ai_config_cache :
        Truthy(ai_config_cache[k]) =>
            (k \in DOMAIN environ /\ environ[k] = ai_config_cache[k])

\* The entry of key k in dict d: <<value>>, or <<>> when there is none.
Entry(d, k) == IF k \in DOMAIN d THEN <<d[k]>> ELSE <<>>

\* C11: update with a falsy value for a whitelisted key k leaves that value
\* in the cache and no os.environ entry for k; while the cache holds a falsy
\* value for k every get(k, d) returns it, and the entry and the missing
\* os.environ entry stay until clear() or an update of k; a falsy value
\* enters the cache only by such an update.
C11_FalsyUpdateShadowsDefault ==
    [][ /\ last'.kind = "update" =>
               \A k \in DOMAIN last'.settings \cap CONFIG_CACHE_KEYS :
                   ~Truthy(last'.settings[k]) =>
                       /\ Entry(ai_config_cache', k) = <<last'.settings[k]>>
                       /\ k \notin DOMAIN environ'
                       /\ \A d \in Defaults \cup Values :
                              get_ai_config(ai_config_cache', environ', k, d).ret
                                  = last'.settings[k]
        /\ \A k \in DOMAIN ai_config_cache :
               ~Truthy(ai_config_cache[k]) =>
                   /\ (last'.kind = "get" /\ last'.key = k) =>
                          last'.ret = ai_config_cache[k]
                   /\ ( /\ last'.kind # "clear"
                        /\ ~(last'.kind = "update" /\ k \in DOMAIN last'.settings) ) =>
                          /\ Entry(ai_config_cache', k) = Entry(ai_config_cache, k)
                          /\ k \notin DOMAIN environ => k \notin DOMAIN environ'
        /\ \A k \in DOMAIN ai_config_cache' :
               ( /\ ~Truthy(ai_config_cache'[k])
                 /\ Entry(ai_config_cache, k) # Entry(ai_config_cache', k) ) =>
                   /\ last'.kind = "update"
                   /\ Entry(last'.settings, k) = <<ai_config_cache'[k]>> ]_vars

\* C11 witness: a get with a truthy default returned the empty value cached
\* for a key that has no os.environ entry.
C11_Witness ==
    /\ last.kind = "get"
    /\ last.key \in DOMAIN ai_config_cache
    /\ last.key \notin DOMAIN environ
    /\ Truthy(last.default)
    /\ last.ret = ""

\* C12: update(settings) changes no cache entry and no os.environ entry
\* other than those of the whitelisted keys of settings, and leaves the
\* client slot, the HTTP_PROXY / HTTPS_PROXY entries and the module-level
\* toggles as they were.
C12_UpdateFrame ==
    [][ last'.kind = "update" =>
          LET touched == DOMAIN last'.settings \cap CONFIG_CACHE_KEYS
              others  == (DOMAIN ai_config_cache \cup DOMAIN ai_config_cache'
                          \cup DOMAIN environ \cup DOMAIN environ'
                          \cup DOMAIN last'.settings) \ touched
          IN  /\ \A k \in others :
                     /\ Entry(ai_config_cache', k) = Entry(ai_config_cache, k)
                     /\ Entry(environ', k) = Entry(environ, k)
              /\ client' = client
              /\ ProxyEntries(environ') = ProxyEntries(environ)
              /\ flags' = flags ]_vars

\* C12 witness: with a live handle, an update gave a key outside the
\* whitelist and a new PROXY_URL; the key has no os.environ entry and the
\* proxy entries still hold the old proxy URL.
C12_Witness ==
    /\ last.kind = "update"
    /\ DOMAIN last.settings = {"HOME", "PROXY_URL"}
    /\ last.settings["PROXY_URL"] = "b"
    /\ "HOME" \notin DOMAIN environ
    /\ client # NoClient
    /\ ProxyEntries(environ) = [k \in ProxyKeys |-> "a"]

\* C13: when init_ai_client() follows an update and returns True, the handle
\* in the slot is built from the API key and the endpoint that get returned
\* after the update: the values of the update for the keys it gave.
C13_HandleFromLatestConfig ==
    [][ (last.kind = "update" /\ last'.kind = "init" /\ last'.success) =>
          /\ client'.api_key = GetRet("OPENAI_API_KEY", None)
          /\ client'.base_url = GetRet("OPENAI_BASE_URL", None)
          /\ "OPENAI_API_KEY" \in DOMAIN last.settings =>
                 client'.api_key = last.settings["OPENAI_API_KEY"]
          /\ "OPENAI_BASE_URL" \in DOMAIN last.settings =>
                 client'.base_url = last.settings["OPENAI_BASE_URL"] ]_vars

\* C13 witness: init right after an update replaced a live handle by one
\* with another API key and another endpoint.
C13_Witness ==
    /\ last.kind = "init"
    /\ last.prev = "update"
    /\ last.success
    /\ last.old # NoClient
    /\ client.api_key # last.old.api_key
    /\ client.base_url # last.old.base_url

\* C14: an init_ai_client() call that directly follows another one, with
\* the same outcome of the constructor, returns the same value and leaves
\* the cache, os.environ and the status of the slot (None, or a handle with
\* the same API key and endpoint) as the first call left them.
C14_InitIdempotent ==
    [][ ( /\ last.kind = "init"
          /\ last'.kind = "init"
          /\ last'.constructs = last.constructs )
        => /\ last'.success = last.success
           /\ ai_config_cache' = ai_config_cache
           /\ environ' = environ
           /\ (client' = NoClient) <=> (client = NoClient)
           /\ client'.api_key = client.api_key
           /\ client'.base_url = client.base_url ]_vars

\* C14 witness: the second of two successive successful init calls, with
\* the proxy entries set.
C14_Witness ==
    /\ last.kind = "init"
    /\ last.prev = "init"
    /\ last.success
    /\ client # NoClient
    /\ ProxyEntries(environ) = [k \in ProxyKeys |-> "b"]

\* The default of the module-level read of key k.
BootDefault(k) == BootReads[CHOOSE i \in 1..Len(BootReads) : BootReads[i][1] = k][2]

\* C17: the module-level code reads every whitelisted key once; when
\* OPENAI_BASE_URL or OPENAI_MODEL_NAME is falsy it leaves the slot None,
\* does not invoke init_ai_client() and leaves os.environ alone; otherwise
\* it invokes init_ai_client() once and the state is what that call leaves.
C17_BootstrapInitOnce ==
    [][ last'.kind = "bootstrap" =>
          LET read(k) == IF k \in DOMAIN environ THEN environ[k] ELSE BootDefault(k)
              reads   == [k \in {x \in CONFIG_CACHE_KEYS : Truthy(read(x))} |-> read(k)]
          IN  IF ~Truthy(read("OPENAI_BASE_URL")) \/ ~Truthy(read("OPENAI_MODEL_NAME"))
              THEN /\ ~last'.called
                   /\ client' = NoClient
                   /\ environ' = environ
                   /\ ai_config_cache' = reads
              ELSE /\ last'.called
                   /\ \E constructs \in BOOLEAN :
                          LET i == init_ai_client(reads, environ, client, constructs)
                          IN  /\ ai_config_cache' = i.cache
                              /\ environ' = i.env
                              /\ client' = i.client
                              /\ last'.success = i.ret ]_vars

\* C17 witness: the module-level code found the endpoint missing and left
\* an HTTP_PROXY entry of os.environ in place without invoking
\* init_ai_client().
C17_Witness ==
    /\ last.kind = "bootstrap"
    /\ ~last.called
    /\ client = NoClient
    /\ "HTTP_PROXY" \in DOMAIN environ
    /\ "OPENAI_MODEL_NAME" \in DOMAIN ai_config_cache

C19_BuildMatchesReference ==
    last.kind = "build" =>
        LET kwargs == last.settings
            result == last.result
        IN  /\ ~flags.ENABLE_RESPONSE_FORMAT => "response_format" \notin DOMAIN result
            /\ flags.ENABLE_RESPONSE_FORMAT =>
                   Entry(result, "response_format") = Entry(kwargs, "response_format")
            /\ flags.ENABLE_THINKING => Entry(result, "extra_body") = <<ThinkingOff>>
            /\ ~flags.ENABLE_THINKING =>
                   Entry(result, "extra_body") = Entry(kwargs, "extra_body")
            /\ \A k \in (DOMAIN kwargs \cup DOMAIN result) \ {"response_format", "extra_body"} :
                   Entry(result, k) = Entry(kwargs, k)

\* C19 witness: with both toggles set against their defaults, the call
\* dropped response_format, overwrote the extra_body passed in and kept
\* model.
C19_Witness ==
    /\ last.kind = "build"
    /\ flags.ENABLE_THINKING
    /\ ~flags.ENABLE_RESPONSE_FORMAT
    /\ DOMAIN last.settings = {"model", "response_format", "extra_body"}
    /\ last.settings["extra_body"] = "x"
    /\ DOMAIN last.result = {"model", "extra_body"}
    /\ last.result["extra_body"] = ThinkingOff

\* C20: _mask_sensitive_value(key, value) returns, for a secret key and a
\* non-empty value, the first 4 characters, "****" and the last 4
\* characters when the value has more than 8 characters and "****" when it
\* has 1 to 8; for any other key and for the empty value it returns the
\* value.  It leaves the cache, os.environ and the client slot alone, and
\* a get on a secret key returns the stored value itself.
C20_MaskMatchesReference ==
    [][ /\ (frames.mask.pc = "call" /\ frames'.mask.pc = "done") =>
              LET k == frames.mask.key
                  v == frames.mask.value
                  n == Len(v)
                  r == frames'.mask.result
              IN  /\ (k \in {"OPENAI_API_KEY", "WX_BOT_URL"} /\ n > 8) =>
                         /\ Len(r) = 12
                         /\ \A i \in 1..4 :
                                r[i] = v[i] /\ r[4 + i] = "*" /\ r[8 + i] = v[n - 4 + i]
                  /\ (k \in {"OPENAI_API_KEY", "WX_BOT_URL"} /\ n \in 1..8) =>
                         r = <<"*", "*", "*", "*">>
                  /\ (k \notin {"OPENAI_API_KEY", "WX_BOT_URL"} \/ n = 0) => r = v
                  /\ ai_config_cache' = ai_config_cache
                  /\ environ' = environ
                  /\ client' = client
        /\ (last'.kind = "get" /\ last'.key = "OPENAI_API_KEY") =>
              last'.ret = IF "OPENAI_API_KEY" \in DOMAIN ai_config_cache
                          THEN ai_config_cache["OPENAI_API_KEY"]
                          ELSE getenv(environ, "OPENAI_API_KEY", last'.default) ]_vars

\* C20 witness: a secret value of more than 8 characters whose first and
\* last four characters differ was masked, after a get returned the API key.
C20_Witness ==
    /\ frames.mask.pc = "done"
    /\ frames.mask.key = "OPENAI_API_KEY"
    /\ Len(frames.mask.value) > 8
    /\ SubSeq(frames.mask.value, 1, 4) # SubSeq(frames.mask.value, Len(frames.mask.value) - 3, Len(frames.mask.value))
    /\ frames.mask.result # frames.mask.value
    /\ "OPENAI_API_KEY" \in DOMAIN ai_config_cache

\* C15: while a call of init_ai_client goes on the client slot is not
\* written: a reader of the slot gets the handle that was live before the
\* call.  The call writes the slot once, in the step that ends it: with
\* None, or with a new handle whose API key and endpoint are both the ones
\* the call read, which are the ones of the configuration in force; a call
\* that returns True leaves a handle in the slot.
C15_ReaderSeesWholeHandle ==
    [][ /\ frames'.init.pc # "idle" => client' = client
        /\ (frames.init.pc # "idle" /\ frames'.init.pc = "idle") =>
              /\ \/ client' = NoClient
                 \/ /\ client'.api_key = frames.init.api_key
                    /\ client'.base_url = frames.init.base_url
                    /\ client'.api_key = GetRet("OPENAI_API_KEY", None)
                    /\ client'.base_url = GetRet("OPENAI_BASE_URL", None)
                    /\ client'.id # frames.init.old.id
              /\ last'.success => client' # NoClient
        /\ last'.kind = "read" =>
              /\ client' = client
              /\ last'.old = client
              /\ frames.init.pc # "idle" => last'.old = frames.init.old ]_vars

\* C15 witness: a reader got the old handle while init_ai_client was about
\* to construct a handle for another endpoint.
C15_Witness ==
    /\ last.kind = "read"
    /\ frames.init.pc = "construct"
    /\ last.old # NoClient
    /\ last.old = frames.init.old
    /\ last.old.base_url # frames.init.base_url

\* C16: when a get_ai_config(k) and an update_ai_config_cache({k: v}) with
\* a truthy v ran interleaved and both have returned, the cache and
\* os.environ both hold v for k and get_ai_config(k) returns v.
C16_GetCannotUndoUpdate ==
    (last.raced /\ Truthy(last.settings[last.key])) =>
        /\ last.key \in DOMAIN ai_config_cache
        /\ ai_config_cache[last.key] = last.settings[last.key]
        /\ last.key \in DOMAIN environ
        /\ environ[last.key] = last.settings[last.key]
        /\ \A d \in Defaults : GetRet(last.key, d) = last.settings[last.key]

====
